---- MODULE Spec2Model ----
(***************************************************************************)
(* across-tabs: a publish/subscribe channel between browser tabs of one    *)
(* origin (src/index.js).  The model holds the subscriber registry         *)
(* (on/off/broadcast), the transport selected at load time, the            *)
(* BroadcastChannel transport and the localStorage transport with its      *)
(* queue and its two 'storage' listeners, for a small set of browsing      *)
(* contexts that share one store and one channel.  The calls of the pages  *)
(* are calls of the on, off and send of the object the selected factory    *)
(* returned; what the module exports is the variable exported.             *)
(***************************************************************************)
EXTENDS Integers, Sequences, FiniteSets, TLC

VARIABLES
  hasWindow,   \* typeof window !== 'undefined'
  inWindow,    \* 'BroadcastChannel', 'SharedWorker', 'localStorage' in window
  transport,   \* the factory the selector ran: "bc", "ls" or "empty"
  exported,    \* module.exports once the module has been loaded
  callbacks,   \* per context: the registry, topic -> array of callbacks
  storage,     \* window.localStorage, shared: key -> text
  queue,       \* per context: localStorageApiFactory's queue, key -> array
  inbox,       \* per context: 'storage' events queued for its listeners
  channel,     \* per context: BroadcastChannel messages queued for onmessage
  pc,          \* per context: where its running send() stands
  cur,         \* per context: the arguments of its running send()
  warnings,    \* number of console.warn calls made
  nsent,       \* number of send() calls made so far
  nops,        \* number of on()/off() calls made so far
  sent,        \* history: the send() calls, in call order
  log,         \* history, per context: the broadcast() calls it ran
  last         \* history: the API call or listener run by the last step

vars == <<hasWindow, inWindow, transport, exported, callbacks, storage,
          queue, inbox, channel, pc, cur, warnings, nsent, nops, sent, log,
          last>>

----------------------------------------------------------------------------
\* Bounds of the model.

\* API calls (on, off, send) made by the pages, all contexts together.
MaxCalls == 3

Contexts == {"A", "B"}

\* The callbacks the page registers: f returns, g raises, h unsubscribes
\* itself from topic x (acrossTabs.off('x', h)) and returns.
Callbacks == {"f", "g", "h"}
Raises(cb) == cb = "g"
Unsubscribes(cb) == cb = "h"

\* off(topic) called without its second argument.
NoCallback == "undefined"

\* Strings are sequences of tokens; the prefix is one token.
prefix == <<"__across-tabs:">>
TopicX == <<"x">>
TopicPX == prefix \o TopicX
Topics == {TopicX, TopicPX}
HTopic == TopicX

\* null, as getItem, e.oldValue and e.newValue give it.
Null == <<>>

Min(a, b) == IF a < b THEN a ELSE b
Max(a, b) == IF a < b THEN b ELSE a

----------------------------------------------------------------------------
\* JSON.  A payload is a number or a string; the n-th send() call carries
\* the number n (n odd) or the string "n" (n even), so a payload names its
\* send() call.

JNum(n) == [type |-> "number", v |-> n]
JStr(n) == [type |-> "string", v |-> n]
JNull == [type |-> "null", v |-> 0]
Payloads(n) == IF n % 2 = 1 THEN {JNum(n)} ELSE {JStr(n)}

Digits == <<"0", "1", "2", "3", "4", "5", "6", "7", "8", "9">>
DigitOf(n) == Digits[n + 1]
NumberOf(tok) == (CHOOSE i \in DOMAIN Digits : Digits[i] = tok) - 1

\* JSON.stringify(data): a number prints as its digits, a string in quotes.
Stringify(data) ==
  IF data.type = "string"
    THEN <<"\"", DigitOf(data.v), "\"">>
    ELSE <<DigitOf(data.v)>>

\* JSON.parse(text); JSON.parse(null) is null.
Parse(text) ==
  IF text = Null THEN JNull
  ELSE IF text[1] = "\""
    THEN JStr(NumberOf(text[2]))
    ELSE JNum(NumberOf(text[1]))

\* The structured clone postMessage makes of {topic, data}.
Clone(message) == [topic |-> message.topic, data |-> message.data]

----------------------------------------------------------------------------
\* Objects used as maps: a function whose domain is the set of own keys.

Has(obj, k) == k \in DOMAIN obj
Put(obj, k, val) == [x \in DOMAIN obj \cup {k} |-> IF x = k THEN val ELSE obj[x]]
Delete(obj, k) == [x \in DOMAIN obj \ {k} |-> obj[x]]
Empty == [x \in {} |-> <<>>]

\* The array under key k, or the empty array when the key is absent.
ArrayAt(obj, k) == IF Has(obj, k) THEN obj[k] ELSE <<>>

\* Array.prototype.indexOf, 0-based, -1 when absent.
IndexOf(arr, x) ==
  IF \E i \in DOMAIN arr : arr[i] = x
    THEN (CHOOSE i \in DOMAIN arr :
            arr[i] = x /\ \A j \in DOMAIN arr : arr[j] = x => i <= j) - 1
    ELSE -1

\* Array.prototype.splice(index, 1): a negative index counts from the end.
Splice1(arr, index) ==
  LET len == Len(arr)
      start == IF index < 0 THEN Max(len + index, 0) ELSE Min(index, len)
      cnt == Min(1, len - start)
  IN  SubSeq(arr, 1, start) \o SubSeq(arr, start + cnt + 1, len)

----------------------------------------------------------------------------
\* The subscriber registry (one per context).

on(reg, topic, callback) ==
  LET r1 == IF Has(reg, topic) THEN reg ELSE Put(reg, topic, <<>>)
  IN  [r1 EXCEPT ![topic] = Append(@, callback)]

\* Mutant of off: the topic is deleted only when its array has become empty.
offKeepsTopic(reg, topic, callback) ==
  IF ~Has(reg, topic) THEN reg
  ELSE
    LET r1 == IF callback # NoCallback
                THEN [reg EXCEPT ![topic] = Splice1(@, IndexOf(@, callback))]
                ELSE reg
    IN  IF Len(r1[topic]) = 0 THEN Delete(r1, topic) ELSE r1

\* Mutant of off: the topic is deleted only when off is called without a
\* callback.
offKeepsEmpty(reg, topic, callback) ==
  IF ~Has(reg, topic) THEN reg
  ELSE
    LET isFunction == callback # NoCallback
        r1 == IF isFunction
                THEN [reg EXCEPT ![topic] = Splice1(@, IndexOf(@, callback))]
                ELSE reg
    IN  IF ~isFunction THEN Delete(r1, topic) ELSE r1

off(reg, topic, callback) ==
  IF ~Has(reg, topic) THEN reg
  ELSE
    LET isFunction == callback # NoCallback
        r1 == IF isFunction
                THEN [reg EXCEPT ![topic] = Splice1(@, IndexOf(@, callback))]
                ELSE reg
    IN  IF ~isFunction \/ Len(r1[topic]) = 0
          THEN Delete(r1, topic)
          ELSE r1

\* What running callback cb does to the registry: h calls off('x', h).
RunCallback(reg, cb) ==
  IF Unsubscribes(cb) THEN off(reg, HTopic, cb) ELSE reg

\* callbacks[topic].forEach(callback => callback(data)), from index k
\* (1-based) on: forEach reads the length once (len0), visits the indices
\* below it that the array still has at that moment, and stops at the first
\* callback that raises.  The array is the one object registered under
\* topic when forEach began: it is spliced in place by off, and is empty
\* once off has emptied it and deleted the topic.
RECURSIVE ForEach(_, _, _, _, _)
ForEach(reg, topic, k, len0, invoked) ==
  LET arr == ArrayAt(reg, topic)
  IN  IF k > len0 THEN [reg |-> reg, invoked |-> invoked, thrown |-> FALSE]
      ELSE IF k > Len(arr) THEN ForEach(reg, topic, k + 1, len0, invoked)
      ELSE IF Raises(arr[k])
        THEN [reg |-> reg, invoked |-> Append(invoked, arr[k]), thrown |-> TRUE]
      ELSE ForEach(RunCallback(reg, arr[k]), topic, k + 1, len0,
                   Append(invoked, arr[k]))

Reverse(seq) == [i \in 1..Len(seq) |-> seq[Len(seq) + 1 - i]]

\* Mutant of broadcast: the array is walked from its last entry to its first.
broadcastBackwards(reg, topic) ==
  IF Has(reg, topic)
    THEN LET r == ForEach(Put(reg, topic, Reverse(reg[topic])), topic, 1,
                          Len(reg[topic]), <<>>)
         IN  [reg |-> IF Has(r.reg, topic)
                        THEN Put(r.reg, topic, Reverse(r.reg[topic]))
                        ELSE r.reg,
              invoked |-> r.invoked, thrown |-> r.thrown]
    ELSE [reg |-> reg, invoked |-> <<>>, thrown |-> FALSE]

\* broadcast(topic, data): the registry afterwards, the callbacks invoked
\* (each with data), in order, and whether one raised.
broadcast(reg, topic) ==
  IF Has(reg, topic)
    THEN ForEach(reg, topic, 1, Len(reg[topic]), <<>>)
    ELSE [reg |-> reg, invoked |-> <<>>, thrown |-> FALSE]

\* The history record of one broadcast(topic, data) call.
LogEntry(reg, topic, data, via) ==
  LET r == broadcast(reg, topic)
  IN  [topic |-> topic, data |-> data, via |-> via,
       before |-> ArrayAt(reg, topic), invoked |-> r.invoked,
       thrown |-> r.thrown]

----------------------------------------------------------------------------
\* The selector: the factory that runs for the environment's capabilities.
\* The SharedWorker branch is guarded by a literal false.

Selector(window, hasBroadcastChannel, hasSharedWorker, hasLocalStorage) ==
  IF window
    THEN IF hasBroadcastChannel THEN "bc"
         ELSE IF FALSE /\ hasSharedWorker THEN "sw"
         ELSE IF hasLocalStorage THEN "ls"
         ELSE "empty"
    ELSE "empty"

\* module.exports = API, the last statement of the module.  Every
\* `const API` of the selector is scoped to the block that declares it, so
\* at module scope the name is unbound whichever factory ran: the read
\* raises ReferenceError and the assignment never happens.
ModuleExports(api) ==
  LET InScope == {}
  IN  IF api \in InScope THEN api ELSE "ReferenceError"

----------------------------------------------------------------------------
\* History records.

Step(op, c, topic, cb, before) ==
  [op |-> op, ctx |-> c, topic |-> topic, cb |-> cb, before |-> before]

\* One send() call: its arguments, the callbacks its context (subs) and
\* every context (peers) had on the topic at the call, the branch it took
\* and whether it has returned.
SentRecord(c, topic, data, includeSelf, path, done) ==
  [ctx |-> c, topic |-> topic, data |-> data, includeSelf |-> includeSelf,
   subs |-> ArrayAt(callbacks[c], topic),
   peers |-> [d \in Contexts |-> ArrayAt(callbacks[d], topic)],
   path |-> path, done |-> done]

NoCur == [topic |-> <<>>, data |-> JNum(0), includeSelf |-> FALSE,
          drain |-> Null, n |-> 0]

Init ==
  /\ hasWindow \in BOOLEAN
  /\ inWindow \in [{"BroadcastChannel", "SharedWorker", "localStorage"} ->
                     IF hasWindow THEN BOOLEAN ELSE {FALSE}]
  /\ transport = Selector(hasWindow, inWindow["BroadcastChannel"],
                          inWindow["SharedWorker"], inWindow["localStorage"])
  /\ exported = ModuleExports(transport)
  /\ callbacks = [c \in Contexts |-> Empty]
  /\ storage = Empty
  /\ queue = [c \in Contexts |-> Empty]
  /\ inbox = [c \in Contexts |-> <<>>]
  /\ channel = [c \in Contexts |-> <<>>]
  /\ pc = [c \in Contexts |-> "idle"]
  /\ cur = [c \in Contexts |-> NoCur]
  /\ warnings = 0
  /\ nsent = 0
  /\ nops = 0
  /\ sent = <<>>
  /\ log = [c \in Contexts |-> <<>>]
  /\ last = Step("load", "A", <<>>, NoCallback, <<>>)

Active == transport \in {"bc", "ls"}

----------------------------------------------------------------------------
\* on and off, as the BroadcastChannel and localStorage factories export
\* them.

On(c, topic, callback) ==
  /\ Active
  /\ pc[c] = "idle"
  /\ nsent + nops < MaxCalls
  /\ nops' = nops + 1
  /\ callbacks' = [callbacks EXCEPT ![c] = on(@, topic, callback)]
  /\ last' = Step("on", c, topic, callback, ArrayAt(callbacks[c], topic))
  /\ UNCHANGED <<hasWindow, inWindow, transport, exported>>
  /\ UNCHANGED <<storage, queue, inbox, channel, pc,
                 cur, warnings, nsent, sent, log>>

Off(c, topic, callback) ==
  /\ Active
  /\ pc[c] = "idle"
  /\ nsent + nops < MaxCalls
  /\ nops' = nops + 1
  /\ callbacks' = [callbacks EXCEPT ![c] = off(@, topic, callback)]
  /\ last' = Step("off", c, topic, callback, ArrayAt(callbacks[c], topic))
  /\ UNCHANGED <<hasWindow, inWindow, transport, exported>>
  /\ UNCHANGED <<storage, queue, inbox, channel, pc,
                 cur, warnings, nsent, sent, log>>

----------------------------------------------------------------------------
\* emptyApiFactory: on, off and send are all noop.

\* Mutant of Noop: the empty API's on is the registry's on.
NoopRegisters(c, name) ==
  /\ transport = "empty"
  /\ nsent + nops < MaxCalls
  /\ nops' = nops + 1
  /\ warnings' = IF hasWindow THEN warnings + 1 ELSE warnings
  /\ callbacks' = IF name = "on"
                    THEN [callbacks EXCEPT ![c] = on(@, TopicX, "f")]
                    ELSE callbacks
  /\ last' = Step("noop", c, <<>>, name, <<>>)
  /\ UNCHANGED <<hasWindow, inWindow, transport, exported>>
  /\ UNCHANGED <<storage, queue, inbox, channel, pc, cur, nsent, sent, log>>

\* Mutant of Noop: noop never warns.
NoopSilent(c, name) ==
  /\ transport = "empty"
  /\ nsent + nops < MaxCalls
  /\ nops' = nops + 1
  /\ last' = Step("noop", c, <<>>, name, <<>>)
  /\ UNCHANGED <<hasWindow, inWindow, transport, exported>>
  /\ UNCHANGED <<callbacks, storage, queue, inbox, channel, pc, cur,
                 warnings, nsent, sent, log>>

Noop(c, name) ==
  /\ transport = "empty"
  /\ nsent + nops < MaxCalls
  /\ nops' = nops + 1
  /\ warnings' = IF hasWindow THEN warnings + 1 ELSE warnings
  /\ last' = Step("noop", c, <<>>, name, <<>>)
  /\ UNCHANGED <<hasWindow, inWindow, transport, exported>>
  /\ UNCHANGED <<callbacks, storage, queue, inbox,
                 channel, pc, cur, nsent, sent, log>>

----------------------------------------------------------------------------
\* Mutant of SelfDelivery: the local broadcast is made whatever includeSelf.
SelfDeliveryAlways(includeSelf) == TRUE

\* Local delivery: the condition under which send() calls broadcast itself.

SelfDelivery(includeSelf) == includeSelf

\* The channel or store notifies every context but the one that acted.
Others(c) == Contexts \ {c}

----------------------------------------------------------------------------
\* broadcastChannelApiFactory.

BcSend(c, topic, data, includeSelf) ==
  /\ transport = "bc"
  /\ nsent + nops < MaxCalls
  /\ nsent' = nsent + 1
  /\ channel' = [d \in Contexts |->
                   IF d \in Others(c)
                     THEN Append(channel[d], Clone([topic |-> topic, data |-> data]))
                     ELSE channel[d]]
  /\ IF SelfDelivery(includeSelf)
       THEN /\ callbacks' = [callbacks EXCEPT ![c] = broadcast(@, topic).reg]
            /\ log' = [log EXCEPT ![c] =
                         Append(@, LogEntry(callbacks[c], topic, data, "self"))]
       ELSE UNCHANGED <<callbacks, log>>
  /\ sent' = Append(sent, SentRecord(c, topic, data, includeSelf, "post", TRUE))
  /\ last' = Step("send", c, topic, NoCallback, ArrayAt(callbacks[c], topic))
  /\ UNCHANGED <<hasWindow, inWindow, transport, exported>>
  /\ UNCHANGED <<storage, queue, inbox, pc, cur,
                 warnings, nops>>

\* channel.onmessage
BcMessage(c) ==
  /\ transport = "bc"
  /\ channel[c] # <<>>
  /\ LET e == Head(channel[c])
     IN  /\ callbacks' = [callbacks EXCEPT ![c] = broadcast(@, e.topic).reg]
         /\ log' = [log EXCEPT ![c] =
                      Append(@, LogEntry(callbacks[c], e.topic, e.data, "recv"))]
         /\ last' = Step("message", c, e.topic, NoCallback,
                         ArrayAt(callbacks[c], e.topic))
  /\ channel' = [channel EXCEPT ![c] = Tail(@)]
  /\ UNCHANGED <<hasWindow, inWindow, transport, exported>>
  /\ UNCHANGED <<storage, queue, inbox, pc, cur,
                 warnings, nsent, nops, sent>>

----------------------------------------------------------------------------
\* localStorageApiFactory.

\* storage.getItem(key)
GetItem(store, key) == IF Has(store, key) THEN store[key] ELSE Null

\* const key = prefix + topic
KeyOf(topic) == prefix \o topic

\* e.key.indexOf(prefix) === 0
StartsWithPrefix(key) ==
  /\ Len(key) >= Len(prefix)
  /\ SubSeq(key, 1, Len(prefix)) = prefix

\* e.key.replace(prefix, ''): the first occurrence of the prefix is cut out.
ReplacePrefix(key) ==
  LET at == {i \in 1..(Len(key) - Len(prefix) + 1) :
               SubSeq(key, i, i + Len(prefix) - 1) = prefix}
  IN  IF at = {} THEN key
      ELSE LET i == CHOOSE j \in at : \A m \in at : j <= m
           IN  SubSeq(key, 1, i - 1) \o SubSeq(key, i + Len(prefix), Len(key))

\* Mutant of DrainKey: the queue is looked up under the key send() queued
\* the data under.
DrainKeyPrefixed(topic) == KeyOf(topic)

\* The key under which the departure listener looks the queue up, for the
\* topic it computed: `topic in queue`, `queue[topic]`.
DrainKey(topic) == topic

\* queue[key].push(data), creating the array first when the key is absent.
Enqueue(q, key, data) ==
  LET q1 == IF Has(q, key) THEN q ELSE Put(q, key, <<>>)
  IN  [q1 EXCEPT ![key] = Append(@, data)]

\* The departure listener's tail, run when its send() call has returned:
\* if (queue[topic].length === 0) delete queue[topic].  Null: the send()
\* was not called by the listener.
AfterSend(q, drain) ==
  IF drain = Null THEN q
  ELSE IF Len(q[drain]) = 0 THEN Delete(q, drain)
  ELSE q

\* The 'storage' events of one mutation, queued in every other context.
Notify(c, key, oldValue, newValue) ==
  [d \in Contexts |->
     IF d \in Others(c) /\ oldValue # newValue
       THEN Append(inbox[d], [key |-> key, oldValue |-> oldValue,
                              newValue |-> newValue])
       ELSE inbox[d]]

\* Mutant of IsArrival: the test of e.oldValue is left out.
IsArrivalAny(e) == StartsWithPrefix(e.key)

\* The arrival listener's condition on a 'storage' event.
IsArrival(e) == StartsWithPrefix(e.key) /\ e.oldValue = Null

\* The departure listener's condition on a 'storage' event.
IsDeparture(e) == StartsWithPrefix(e.key) /\ e.newValue = Null

\* send(topic, data, includeSelf) by context c whose queue is q, up to and
\* including storage.getItem(key): either the slot is free and the call goes
\* on to write it, or the data is queued and the call returns.
SendCall(c, topic, data, includeSelf, q, drain, n) ==
  LET key == KeyOf(topic)
  IN  IF GetItem(storage, key) = Null
        THEN /\ pc' = [pc EXCEPT ![c] = "checked"]
             /\ cur' = [cur EXCEPT ![c] =
                          [topic |-> topic, data |-> data,
                           includeSelf |-> includeSelf, drain |-> drain,
                           n |-> n]]
             /\ queue' = [queue EXCEPT ![c] = q]
        ELSE /\ queue' = [queue EXCEPT ![c] =
                            AfterSend(Enqueue(q, key, data), drain)]
             /\ UNCHANGED <<pc, cur>>

\* A page calls send(topic, data, includeSelf).
Send(c, topic, data, includeSelf) ==
  /\ transport = "ls"
  /\ pc[c] = "idle"
  /\ nsent + nops < MaxCalls
  /\ nsent' = nsent + 1
  /\ SendCall(c, topic, data, includeSelf, queue[c], Null, nsent + 1)
  /\ LET free == GetItem(storage, KeyOf(topic)) = Null
     IN  sent' = Append(sent, SentRecord(c, topic, data, includeSelf,
                                         IF free THEN "write" ELSE "queued",
                                         ~free))
  /\ last' = Step("send", c, topic, NoCallback, ArrayAt(callbacks[c], topic))
  /\ UNCHANGED <<hasWindow, inWindow, transport, exported>>
  /\ UNCHANGED <<callbacks, storage, inbox, channel,
                 warnings, nops, log>>

\* storage.setItem(key, JSON.stringify(data))
SendWrite(c) ==
  /\ transport = "ls"
  /\ pc[c] = "checked"
  /\ LET key == KeyOf(cur[c].topic)
         text == Stringify(cur[c].data)
     IN  /\ storage' = Put(storage, key, text)
         /\ inbox' = Notify(c, key, GetItem(storage, key), text)
  /\ pc' = [pc EXCEPT ![c] = "written"]
  /\ last' = Step("setItem", c, cur[c].topic, NoCallback,
                  ArrayAt(callbacks[c], cur[c].topic))
  /\ UNCHANGED <<hasWindow, inWindow, transport, exported>>
  /\ UNCHANGED <<callbacks, queue, channel, cur,
                 warnings, nsent, nops, sent, log>>

\* Mutant of SendRemove: removeItem is called with the topic, not the key.
SendRemoveBareTopic(c) ==
  /\ transport = "ls"
  /\ pc[c] = "written"
  /\ LET topic == cur[c].topic
         key == topic
         self == SelfDelivery(cur[c].includeSelf)
         r == broadcast(callbacks[c], topic)
     IN  /\ storage' = Delete(storage, key)
         /\ inbox' = Notify(c, key, GetItem(storage, key), Null)
         /\ IF self
              THEN /\ callbacks' = [callbacks EXCEPT ![c] = r.reg]
                   /\ log' = [log EXCEPT ![c] =
                                Append(@, LogEntry(callbacks[c], topic,
                                                   cur[c].data, "self"))]
              ELSE UNCHANGED <<callbacks, log>>
         /\ queue' = [queue EXCEPT ![c] =
                        IF self /\ r.thrown THEN @
                        ELSE AfterSend(@, cur[c].drain)]
         /\ sent' = IF cur[c].n = 0 THEN sent
                    ELSE [sent EXCEPT ![cur[c].n].done = TRUE]
         /\ last' = Step("removeItem", c, topic, NoCallback,
                         ArrayAt(callbacks[c], topic))
  /\ pc' = [pc EXCEPT ![c] = "idle"]
  /\ cur' = [cur EXCEPT ![c] = NoCur]
  /\ UNCHANGED <<hasWindow, inWindow, transport, exported>>
  /\ UNCHANGED <<channel, warnings, nsent, nops>>

\* storage.removeItem(key), then the local broadcast if includeSelf, then
\* the return to the caller (the page, or the departure listener, which
\* goes on to its tail unless the call raised).
SendRemove(c) ==
  /\ transport = "ls"
  /\ pc[c] = "written"
  /\ LET topic == cur[c].topic
         key == KeyOf(topic)
         self == SelfDelivery(cur[c].includeSelf)
         r == broadcast(callbacks[c], topic)
     IN  /\ storage' = Delete(storage, key)
         /\ inbox' = Notify(c, key, GetItem(storage, key), Null)
         /\ IF self
              THEN /\ callbacks' = [callbacks EXCEPT ![c] = r.reg]
                   /\ log' = [log EXCEPT ![c] =
                                Append(@, LogEntry(callbacks[c], topic,
                                                   cur[c].data, "self"))]
              ELSE UNCHANGED <<callbacks, log>>
         /\ queue' = [queue EXCEPT ![c] =
                        IF self /\ r.thrown THEN @
                        ELSE AfterSend(@, cur[c].drain)]
         /\ sent' = IF cur[c].n = 0 THEN sent
                    ELSE [sent EXCEPT ![cur[c].n].done = TRUE]
         /\ last' = Step("removeItem", c, topic, NoCallback,
                         ArrayAt(callbacks[c], topic))
  /\ pc' = [pc EXCEPT ![c] = "idle"]
  /\ cur' = [cur EXCEPT ![c] = NoCur]
  /\ UNCHANGED <<hasWindow, inWindow, transport, exported>>
  /\ UNCHANGED <<channel, warnings, nsent, nops>>

\* One 'storage' event dispatched in context c: the arrival listener, then
\* the departure listener.
StorageEvent(c) ==
  /\ transport = "ls"
  /\ pc[c] = "idle"
  /\ inbox[c] # <<>>
  /\ LET e == Head(inbox[c])
         topic == ReplacePrefix(e.key)
         arrival == IsArrival(e)
         departure == IsDeparture(e)
     IN  /\ IF arrival
              THEN /\ callbacks' =
                        [callbacks EXCEPT ![c] = broadcast(@, topic).reg]
                   /\ log' = [log EXCEPT ![c] =
                                Append(@, LogEntry(callbacks[c], topic,
                                                   Parse(e.newValue), "recv"))]
              ELSE UNCHANGED <<callbacks, log>>
         /\ IF departure /\ Has(queue[c], DrainKey(topic))
              THEN LET k == DrainKey(topic)
                   IN  SendCall(c, topic, Head(queue[c][k]),
                                FALSE, [queue[c] EXCEPT ![k] = Tail(@)], k, 0)
              ELSE UNCHANGED <<queue, pc, cur>>
         /\ last' = Step(IF arrival THEN "arrival"
                         ELSE IF departure THEN "departure" ELSE "ignored",
                         c, topic, NoCallback, ArrayAt(callbacks[c], topic))
  /\ inbox' = [inbox EXCEPT ![c] = Tail(@)]
  /\ UNCHANGED <<hasWindow, inWindow, transport, exported>>
  /\ UNCHANGED <<storage, channel, warnings, nsent,
                 nops, sent>>

----------------------------------------------------------------------------
Next ==
  \/ \E c \in Contexts, t \in Topics, cb \in Callbacks : On(c, t, cb)
  \/ \E c \in Contexts, t \in Topics, cb \in Callbacks \cup {NoCallback} :
       Off(c, t, cb)
  \/ \E c \in Contexts, name \in {"on", "off", "send"} : Noop(c, name)
  \/ \E c \in Contexts, t \in Topics, self \in BOOLEAN :
       \E data \in Payloads(nsent + 1) : BcSend(c, t, data, self)
  \/ \E c \in Contexts : BcMessage(c)
  \/ \E c \in Contexts, t \in Topics, self \in BOOLEAN :
       \E data \in Payloads(nsent + 1) : Send(c, t, data, self)
  \/ \E c \in Contexts : SendWrite(c)
  \/ \E c \in Contexts : SendRemove(c)
  \/ \E c \in Contexts : StorageEvent(c)

Spec == Init /\ [][Next]_vars

\* The localStorage transport, started in the state the pages are in once
\* each context has called on(topic, f) for each topic: the calls counted
\* against MaxCalls are the ones made from there on.
InitSubscribed ==
  /\ hasWindow = TRUE
  /\ inWindow = [BroadcastChannel |-> FALSE, SharedWorker |-> FALSE,
                 localStorage |-> TRUE]
  /\ transport = Selector(hasWindow, inWindow["BroadcastChannel"],
                          inWindow["SharedWorker"], inWindow["localStorage"])
  /\ exported = ModuleExports(transport)
  /\ callbacks = [c \in Contexts |-> on(on(Empty, TopicX, "f"), TopicPX, "f")]
  /\ storage = Empty
  /\ queue = [c \in Contexts |-> Empty]
  /\ inbox = [c \in Contexts |-> <<>>]
  /\ channel = [c \in Contexts |-> <<>>]
  /\ pc = [c \in Contexts |-> "idle"]
  /\ cur = [c \in Contexts |-> NoCur]
  /\ warnings = 0
  /\ nsent = 0
  /\ nops = 0
  /\ sent = <<>>
  /\ log = [c \in Contexts |-> <<>>]
  /\ last = Step("on", "B", TopicPX, "f", <<>>)

NextLS ==
  \/ \E c \in Contexts, t \in Topics, cb \in Callbacks : On(c, t, cb)
  \/ \E c \in Contexts, t \in Topics, cb \in Callbacks \cup {NoCallback} :
       Off(c, t, cb)
  \/ \E c \in Contexts, t \in Topics, self \in BOOLEAN :
       \E data \in Payloads(nsent + 1) : Send(c, t, data, self)
  \/ \E c \in Contexts : SendWrite(c)
  \/ \E c \in Contexts : SendRemove(c)
  \/ \E c \in Contexts : StorageEvent(c)

SpecSubscribed == InitSubscribed /\ [][NextLS]_vars

----------------------------------------------------------------------------
\* Properties.

Range(seq) == {seq[i] : i \in DOMAIN seq}
Count(seq, x) == Cardinality({i \in DOMAIN seq : seq[i] = x})

\* No send() is running, no event is waiting and no slot is occupied.
Quiescent ==
  /\ storage = Empty
  /\ \A c \in Contexts : pc[c] = "idle" /\ inbox[c] = <<>>

\* Context d ran broadcast(topic, data) from its arrival listener.
Received(d, topic, data) ==
  \E i \in DOMAIN log[d] :
    /\ log[d][i].via = "recv"
    /\ log[d][i].topic = topic
    /\ log[d][i].data = data

\* C1: on the localStorage transport, a value that send(T, b) queued because
\* the slot of T was occupied is written and delivered to the other contexts
\* once the occupying slot has departed: when every send has returned, every
\* slot has departed and every 'storage' event has been handled, each queued
\* value has reached every other context on T and no queue holds a value.
C1_QueuedIsDelivered ==
  (transport = "ls" /\ Quiescent) =>
    /\ \A c \in Contexts : queue[c] = Empty
    /\ \A n \in DOMAIN sent :
         sent[n].path = "queued" =>
           \A d \in Others(sent[n].ctx) :
             Received(d, sent[n].topic, sent[n].data)

\* The send() call a delivered payload belongs to (0 when there is none).
SendOf(data) ==
  IF \E n \in DOMAIN sent : sent[n].data = data
    THEN CHOOSE n \in DOMAIN sent : sent[n].data = data
    ELSE 0

\* Entry e of a context's log is the delivery, in context d, of a message
\* that context c sent on the topic it is delivered on.
DeliveryFrom(e, c, d) ==
  /\ e.via = "recv"
  /\ c # d
  /\ SendOf(e.data) # 0
  /\ sent[SendOf(e.data)].ctx = c
  /\ sent[SendOf(e.data)].topic = e.topic

\* C2: on the localStorage transport, two messages that one context sent on
\* one topic T, a before b, are never delivered in another context in the
\* order b, a.
C2_SendOrder ==
  transport = "ls" =>
    \A c \in Contexts, d \in Contexts :
      \A i \in DOMAIN log[d], j \in DOMAIN log[d] :
        ( /\ i < j
          /\ DeliveryFrom(log[d][i], c, d)
          /\ DeliveryFrom(log[d][j], c, d)
          /\ log[d][i].topic = log[d][j].topic )
        => SendOf(log[d][i].data) < SendOf(log[d][j].data)

\* Witness of C2: a context has received, on one topic and with a subscriber
\* invoked each time, two messages of one other context.
C2_Witness ==
  /\ transport = "ls"
  /\ \E c \in Contexts, d \in Contexts :
       \E i \in DOMAIN log[d], j \in DOMAIN log[d] :
         /\ i < j
         /\ DeliveryFrom(log[d][i], c, d)
         /\ DeliveryFrom(log[d][j], c, d)
         /\ log[d][i].topic = log[d][j].topic
         /\ log[d][i].invoked # <<>>
         /\ log[d][j].invoked # <<>>

\* C3: a send(T, data, true) that has returned, on the BroadcastChannel or
\* the localStorage transport, has invoked each callback that was registered
\* on T in the sending context exactly once (once for each registration),
\* with data, whether or not the slot of T was empty at the call.
C3_SelfDeliveryOnce ==
  Active =>
    \A n \in DOMAIN sent :
      (sent[n].includeSelf /\ sent[n].done) =>
        LET c == sent[n].ctx
            own == {i \in DOMAIN log[c] :
                      /\ log[c][i].via = "self"
                      /\ log[c][i].topic = sent[n].topic
                      /\ log[c][i].data = sent[n].data}
            invoked == IF own = {} THEN <<>>
                       ELSE log[c][CHOOSE i \in own : TRUE].invoked
        IN  /\ Cardinality(own) <= 1
            /\ \A cb \in Callbacks :
                 Count(invoked, cb) = Count(sent[n].subs, cb)

\* C4: a send(T, data) with includeSelf false never makes the sending
\* context run broadcast for that message: every broadcast a context runs
\* for a message it sent itself is the local one of an includeSelf send.
C4_NoSelfDelivery ==
  \A c \in Contexts :
    \A i \in DOMAIN log[c] :
      LET n == SendOf(log[c][i].data)
      IN  (n # 0 /\ sent[n].ctx = c) =>
            (sent[n].includeSelf /\ log[c][i].via = "self")

\* Witness of C4: a send without includeSelf has returned and reached
\* another context while the sender had a callback on its topic.
C4_Witness ==
  \E n \in DOMAIN sent :
    /\ ~sent[n].includeSelf
    /\ sent[n].done
    /\ ArrayAt(callbacks[sent[n].ctx], sent[n].topic) # <<>>
    /\ \E d \in Others(sent[n].ctx) :
         Received(d, sent[n].topic, sent[n].data)

\* Every broadcast() call of the history.
Broadcasts == UNION {{log[c][i] : i \in DOMAIN log[c]} : c \in Contexts}

\* The array of the topic the last step was about, in its context, now.
ArrayNow == ArrayAt(callbacks[last.ctx], last.topic)

\* arr without its first entry identical to x (arr itself when there is none).
WithoutFirst(arr, x) ==
  IF x \in Range(arr)
    THEN LET i == IndexOf(arr, x) + 1
         IN  SubSeq(arr, 1, i - 1) \o SubSeq(arr, i + 1, Len(arr))
    ELSE arr

\* C5: after on(T, C), broadcast(T, data) invokes C exactly once (once for
\* each registration of C on T); after a following off(T, C) that removed
\* the registration, a broadcast on T does not invoke C.
C5_OnOffBroadcast ==
  /\ last.op = "on" => ArrayNow = Append(last.before, last.cb)
  /\ (last.op = "off" /\ Count(last.before, last.cb) = 1) =>
       last.cb \notin Range(ArrayNow)
  /\ \A e \in Broadcasts :
       \A cb \in Callbacks : Count(e.invoked, cb) = Count(e.before, cb)

\* C6: off(T, C) with a callback removes from T's array the first entry
\* identical to C and nothing else; no entry is removed when C is not in it.
C6_OffRemovesOnlyC ==
  (last.op = "off" /\ last.cb # NoCallback) =>
    ArrayNow = WithoutFirst(last.before, last.cb)

\* C7: off(T) without a callback leaves T absent from the registry; while T
\* is absent a broadcast on T invokes no callback, and only an on(T, .) of
\* that context makes T present again.
C7_OffAllRemovesTopic ==
  [][ /\ (last'.op = "off" /\ last'.cb = NoCallback) =>
           ~Has(callbacks'[last'.ctx], last'.topic)
      /\ \A c \in Contexts, t \in Topics :
           ~Has(callbacks[c], t) =>
             /\ Has(callbacks'[c], t) =>
                  (last'.op = "on" /\ last'.ctx = c /\ last'.topic = t)
             /\ (Len(log'[c]) > Len(log[c])
                   /\ log'[c][Len(log'[c])].topic = t) =>
                  log'[c][Len(log'[c])].invoked = <<>>
    ]_vars

\* Witness of C7: off(T) without a callback has just removed the
\* subscribers of T.
C7_Witness ==
  /\ last.op = "off"
  /\ last.cb = NoCallback
  /\ last.before # <<>>
  /\ ~Has(callbacks[last.ctx], last.topic)

\* inv is arr with some entries left out, the others in arr's order.
RECURSIVE IsSubsequence(_, _)
IsSubsequence(inv, arr) ==
  IF inv = <<>> THEN TRUE
  ELSE IF arr = <<>> THEN FALSE
  ELSE IF Head(inv) = Head(arr) THEN IsSubsequence(Tail(inv), Tail(arr))
  ELSE IsSubsequence(inv, Tail(arr))

\* C8: broadcast(T, data) invokes callbacks in their registration order:
\* the callbacks invoked are entries of T's array in the array's order, and
\* they are the whole array when no entry raises or unsubscribes.
C8_RegistrationOrder ==
  \A e \in Broadcasts :
    /\ IsSubsequence(e.invoked, e.before)
    /\ (\A cb \in Range(e.before) : ~Raises(cb) /\ ~Unsubscribes(cb)) =>
         e.invoked = e.before

\* Witness of C8: a broadcast has invoked two different callbacks.
C8_Witness ==
  \E e \in Broadcasts :
    /\ Len(e.invoked) >= 2
    /\ e.invoked[1] # e.invoked[2]

\* C9: when a callback raises during broadcast(T, data), every callback
\* registered after it on T is still invoked in that broadcast.
C9_RaiseIsIsolated ==
  \A e \in Broadcasts :
    \A i \in DOMAIN e.before, j \in DOMAIN e.before :
      (i < j /\ Raises(e.before[i]) /\ e.before[i] \in Range(e.invoked)) =>
        e.before[j] \in Range(e.invoked)

\* C10: on the localStorage transport the set/remove pair of one message
\* makes each other context run at most one broadcast for it, with a value
\* equal to the data that was sent, in which no registration is invoked
\* twice; the removal causes no delivery.
C10_DeliveredOnceIntact ==
  transport = "ls" =>
    \A d \in Contexts :
      \A i \in DOMAIN log[d] :
        log[d][i].via = "recv" =>
          /\ SendOf(log[d][i].data) # 0
          /\ sent[SendOf(log[d][i].data)].ctx # d
          /\ \A j \in DOMAIN log[d] :
               (log[d][j].via = "recv" /\ log[d][j].data = log[d][i].data)
                 => j = i
          /\ \A cb \in Callbacks :
               Count(log[d][i].invoked, cb) <= Count(log[d][i].before, cb)

\* Witness of C10: a context has handled both events of a string message,
\* the arrival having invoked a callback.
C10_Witness ==
  /\ transport = "ls"
  /\ \E d \in Contexts :
       /\ inbox[d] = <<>>
       /\ \E i \in DOMAIN log[d] :
            /\ log[d][i].via = "recv"
            /\ log[d][i].data.type = "string"
            /\ log[d][i].invoked # <<>>
            /\ sent[SendOf(log[d][i].data)].done

\* C11: on the localStorage transport, a send(T, data) made while another
\* context has a callback on T ends with that context running
\* broadcast(T, data) and invoking the callbacks it then has on T: when every
\* send has returned and every 'storage' event has been handled, the message
\* has been delivered there.
C11_SendIsDelivered ==
  (transport = "ls" /\ Quiescent) =>
    \A n \in DOMAIN sent :
      \A d \in Others(sent[n].ctx) :
        sent[n].peers[d] # <<>> =>
          \E i \in DOMAIN log[d] :
            /\ log[d][i].via = "recv"
            /\ log[d][i].topic = sent[n].topic
            /\ log[d][i].data = sent[n].data
            /\ Range(log[d][i].before) \subseteq Range(log[d][i].invoked)

\* C12: the selector runs exactly one factory, by strict priority
\* (BroadcastChannel if the window has it, else localStorage if the window
\* has it, else the empty API), never the SharedWorker one, and the module
\* exports the API of the factory that ran.
C12_SelectorExports ==
  /\ transport \in {"bc", "ls", "empty"}
  /\ transport = "bc" <=> (hasWindow /\ inWindow["BroadcastChannel"])
  /\ transport = "ls" <=> /\ hasWindow
                          /\ ~inWindow["BroadcastChannel"]
                          /\ inWindow["localStorage"]
  /\ exported = transport

\* C13: with the empty API active, send, on and off return and change
\* nothing: no callback is registered, removed or invoked and nothing is
\* written to the store, the channel, a queue or an event queue.
C13_FallbackHasNoEffect ==
  transport = "empty" =>
    /\ \A c \in Contexts :
         /\ callbacks[c] = Empty
         /\ queue[c] = Empty
         /\ inbox[c] = <<>>
         /\ channel[c] = <<>>
         /\ log[c] = <<>>
         /\ pc[c] = "idle"
    /\ storage = Empty
    /\ sent = <<>>

\* The empty API's on has been called after an earlier call.
C13_Witness ==
  /\ transport = "empty"
  /\ last.op = "noop"
  /\ last.cb = "on"
  /\ nops >= 2

C15_DepartureDrainsOldest ==
  [][\A c \in Contexts :
       ( /\ transport = "ls"
         /\ pc[c] = "idle"
         /\ inbox[c] # <<>>
         /\ inbox'[c] = Tail(inbox[c])
         /\ IsDeparture(Head(inbox[c]))
         /\ ArrayAt(queue[c], Head(inbox[c]).key) # <<>> ) =>
           LET K == Head(inbox[c]).key
               T == CHOOSE t \in Topics : KeyOf(t) = K
               oldest == Head(queue[c][K])
               rest == Tail(queue[c][K])
           IN  \/ /\ pc'[c] = "checked"
                  /\ cur'[c].topic = T
                  /\ cur'[c].data = oldest
                  /\ ArrayAt(queue'[c], K) = rest
               \/ /\ pc'[c] = "idle"
                  /\ GetItem(storage, K) # Null
                  /\ queue'[c][K] = Append(rest, oldest)
    ]_vars

\* C16: in every interleaving of the sending contexts, setItem on key K is
\* run only while K is absent from the store, a send that finds the slot
\* occupied queues its data and leaves the store as it is, and so a value
\* in the store is never replaced by another one.
C16_WriteOnlyToFreeSlot ==
  [][/\ \A c \in Contexts :
          /\ (pc[c] = "checked" /\ pc'[c] = "written") =>
               ~Has(storage, KeyOf(cur[c].topic))
          /\ (pc[c] = "idle" /\ pc'[c] = "idle" /\ queue'[c] # queue[c]) =>
               storage' = storage
     /\ \A k \in DOMAIN storage \cap DOMAIN storage' :
          storage'[k] = storage[k]
    ]_vars

\* C17: whenever no context is inside a send call, no key with the prefix
\* is in the store.
C17_SlotNeverPersisted ==
  (\A c \in Contexts : pc[c] = "idle") =>
    \A k \in DOMAIN storage : ~StartsWithPrefix(k)

\* Two contexts have each written a slot and returned from send, and no
\* send is running.
C17_Witness ==
  /\ \A c \in Contexts : pc[c] = "idle"
  /\ \E n, m \in DOMAIN sent :
       /\ sent[n].ctx # sent[m].ctx
       /\ sent[n].path = "write" /\ sent[n].done
       /\ sent[m].path = "write" /\ sent[m].done
  /\ storage = Empty

\* C18: after any on and off calls a registry holds no topic with an empty
\* callback array: a topic is in the registry exactly when it has at least
\* one callback.
C18_NoEmptyTopic ==
  \A c \in Contexts :
    \A t \in DOMAIN callbacks[c] : callbacks[c][t] # <<>>

\* off has just removed the only callback of a topic, which is gone from
\* the registry while the context's other topic is still there.
C18_Witness ==
  /\ last.op = "off"
  /\ last.before = <<last.cb>>
  /\ ~Has(callbacks[last.ctx], last.topic)
  /\ callbacks[last.ctx] # Empty

\* C19: a broadcast on a topic invokes every callback that was registered on
\* the topic when it started and was not removed before its turn, also when
\* a callback unsubscribes during the delivery: in a broadcast in which no
\* callback raised, every callback other than the unsubscribing one (whose
\* entries are the only ones that get removed) is invoked once for each of
\* its registrations.
C19_BroadcastReachesAll ==
  \A e \in Broadcasts :
    ~e.thrown =>
      \A cb \in Range(e.before) :
        ~Unsubscribes(cb) => Count(e.invoked, cb) = Count(e.before, cb)

\* C20: on the localStorage transport, whatever the topic names (also one
\* that begins with the storage prefix), a callback registered on topic T is
\* only ever invoked with data that some context passed to send for T:
\* every broadcast that invoked a callback carries the data of a send made
\* on the broadcast's topic.
C20_TopicIsolation ==
  transport = "ls" =>
    \A d \in Contexts :
      \A i \in DOMAIN log[d] :
        log[d][i].invoked # <<>> =>
          \E n \in DOMAIN sent :
            /\ sent[n].data = log[d][i].data
            /\ sent[n].topic = log[d][i].topic

====
